---- MODULE Spec2Model ----
(***************************************************************************)
(* A model of electrumx/lib/coins.py: the Coin base profile, the Qtum and  *)
(* QtumTestnet profiles, the variable-length header slicer, the hashX      *)
(* derivation, the address codec glue, the registry lookups, the genesis   *)
(* check and the daemon URL sanitiser.                                     *)
(*                                                                         *)
(* Every operation of the file is a pure class method.  Each component has *)
(* a specification of its own: Init draws the call's inputs from bounded   *)
(* sets, and one action per method applies the method to the inputs and    *)
(* records its outcome in ret.                                             *)
(*                                                                         *)
(* Bytes are the integers 0..255 and byte strings are sequences of them.   *)
(* Python offsets are 0-based, sequences here are 1-based: b[k] in Python  *)
(* is b[k+1] here.  Cryptographic digests (sha256, double_sha256, hash160) *)
(* are symbolic: a digest is a value that names the function and its       *)
(* input, so that two digests are equal exactly when their inputs are.     *)
(***************************************************************************)
EXTENDS Integers, Sequences, FiniteSets

VARIABLES component, input, ret

vars == <<component, input, ret>>

(***************************************************************************)
(* Outcomes of a call: a returned value, or a raised exception.            *)
(***************************************************************************)
Returned(v) == [ok |-> TRUE, val |-> v]

Raised(cls, msg) == [ok |-> FALSE, exc |-> cls, msg |-> msg]

NoCalls == <<>>

Called(label) == label \in DOMAIN ret

Record(label, outcome) == [l \in (DOMAIN ret) \cup {label} |->
                              IF l = label THEN outcome ELSE ret[l]]

Min(a, b) == IF a < b THEN a ELSE b

(***************************************************************************)
(* Python slicing b[:n] for n >= 0: never fails, a short buffer gives a    *)
(* short slice.                                                            *)
(***************************************************************************)
SliceTo(b, n) == SubSeq(b, 1, Min(n, Len(b)))

(***************************************************************************)
(* Symbolic digests.                                                       *)
(***************************************************************************)
sha256(data) == [alg |-> "sha256", data |-> data, len |-> 32]

double_sha256(data) == [alg |-> "double_sha256", data |-> data, len |-> 32]

\* digest[:n]
Truncate(digest, n) == [digest EXCEPT !.len = Min(n, digest.len)]

\* hash160(x): 20 digest bytes, byte i of ripemd160(sha256(x)).
hash160(data) == [i \in 1..20 |-> [h160 |-> data, i |-> i]]

\* hash_to_hex_str(x) = bytes(reversed(x)).hex()
hash_to_hex_str(digest) == [hexrev |-> digest]

HASHX_LEN == 11

(***************************************************************************)
(* Bounds of the model.                                                    *)
(***************************************************************************)
\* Declared signature lengths 0..MaxSig in each varint width.
MaxSig == 2
\* Bytes that follow the varint in a raw block (signature + transactions).
MaxRest == 4
\* Heights 0..MaxHeight.
MaxHeight == 1

(***************************************************************************)
(* The variable-length header slicer (Qtum.block_header).                  *)
(***************************************************************************)
BASIC_HEADER_SIZE == 180

\* Little-endian unsigned integer of the w bytes at Python offset cursor.
RECURSIVE LEUint(_, _, _)
LEUint(binary, cursor, w) ==
    IF w = 0 THEN 0
    ELSE binary[cursor + 1] + 256 * LEUint(binary, cursor + 1, w - 1)

(***************************************************************************)
(* Deserializer.read_varint at the given cursor: the compact-size integer  *)
(* of the wire format.  A read past the end of the buffer raises.          *)
(***************************************************************************)
read_varint(binary, cursor) ==
    IF cursor >= Len(binary)
    THEN [ok |-> FALSE, exc |-> "IndexError"]
    ELSE LET n == binary[cursor + 1]
             w == IF n = 253 THEN 2 ELSE IF n = 254 THEN 4 ELSE 8
         IN  IF n < 253
             THEN [ok |-> TRUE, value |-> n, cursor |-> cursor + 1]
             ELSE IF cursor + 1 + w > Len(binary)
                  THEN [ok |-> FALSE, exc |-> "struct.error"]
                  ELSE [ok |-> TRUE, value |-> LEUint(binary, cursor + 1, w),
                        cursor |-> cursor + 1 + w]

\* A slicer that takes the varint to be one byte wide whatever its first byte.
Qtum_block_header_OneByteVarint(block, height) ==
    LET d == read_varint(block, BASIC_HEADER_SIZE)
    IN  IF ~d.ok THEN Raised(d.exc, "read_varint")
        ELSE Returned(SliceTo(block, BASIC_HEADER_SIZE + 1 + d.value))

\* Qtum.block_header: block[:deserializer.cursor + sig_length]
Qtum_block_header(block, height) ==
    LET d == read_varint(block, BASIC_HEADER_SIZE)
    IN  IF ~d.ok THEN Raised(d.exc, "read_varint")
        ELSE Returned(SliceTo(block, d.cursor + d.value))

(***************************************************************************)
(* Raw blocks: a 180-byte fixed prefix, a varint, and the bytes after it,  *)
(* possibly cut short.  The first prefix byte tells the chains apart.      *)
(***************************************************************************)
FixedPrefix(chain) == [i \in 1..BASIC_HEADER_SIZE |-> IF i = 1 THEN chain ELSE 0]

\* The bytes after the varint: byte k is k (modulo 256), so that slices are
\* told apart.
RestBytes(n) == [i \in 1..n |-> i % 256]

Zeros(n) == [i \in 1..n |-> 0]

\* Encodings of a length: one byte, or 0xfd/0xfe/0xff and 2/4/8 bytes.
VarintEncodings ==
    {<<n>> : n \in (0..MaxSig) \cup {252}}
    \cup {<<253, lo, hi>> : lo \in 0..MaxSig, hi \in 0..1}
    \cup {<<254, lo>> \o Zeros(3) : lo \in 0..MaxSig}
    \cup {<<255, lo>> \o Zeros(7) : lo \in 0..MaxSig}

\* 253 is the least length whose minimal encoding is three bytes wide.
MinimalWide == <<253, 253, 0>>

FullBlocks(chains) ==
    {FixedPrefix(c) \o enc \o RestBytes(r) :
        c \in chains, enc \in VarintEncodings, r \in 0..MaxRest}
    \cup {FixedPrefix(c) \o MinimalWide \o RestBytes(253 + r) :
              c \in chains, r \in 0..MaxRest}

\* Every block, whole, less its last byte, or truncated anywhere from the
\* last prefix byte on.
RawBlocks(chains) ==
    UNION {{SliceTo(b, n) :
               n \in {0, Len(b) - 1, Len(b)}
                     \cup ((BASIC_HEADER_SIZE - 1)..(BASIC_HEADER_SIZE + 9 + MaxRest))} :
           b \in FullBlocks(chains)}

Heights == 0..MaxHeight

InitHeader ==
    /\ component = "header"
    /\ input \in [block : RawBlocks({1}), height : Heights]
    /\ ret = NoCalls

\* Qtum.block_header(block, height)
CallBlockHeader ==
    /\ component = "header"
    /\ ret' = Record("block_header", Qtum_block_header(input.block, input.height))
    /\ UNCHANGED <<component, input>>

\* Qtum.block_header(block, h) at another height h.
CallBlockHeaderAt ==
    /\ component = "header"
    /\ \E h \in Heights :
          ret' = Record("block_header_at", Qtum_block_header(input.block, h))
    /\ UNCHANGED <<component, input>>

NextHeader == CallBlockHeader \/ CallBlockHeaderAt

SpecHeader == InitHeader /\ [][NextHeader]_vars

(***************************************************************************)
(* What a raw block declares, read off the bytes without the slicer:       *)
(* the width of the varint at offset 180 and the length it declares.       *)
(***************************************************************************)
HasVarint(block) ==
    /\ Len(block) > BASIC_HEADER_SIZE
    /\ LET n == block[BASIC_HEADER_SIZE + 1]
       IN  Len(block) >= BASIC_HEADER_SIZE + (CASE n < 253 -> 1 [] n = 253 -> 3
                                                [] n = 254 -> 5 [] OTHER -> 9)

VarintSize(block) ==
    LET n == block[BASIC_HEADER_SIZE + 1]
    IN  CASE n < 253 -> 1 [] n = 253 -> 3 [] n = 254 -> 5 [] OTHER -> 9

\* The encodings of the model keep the bytes above the second at zero.
DeclaredSigLength(block) ==
    LET n == block[BASIC_HEADER_SIZE + 1]
    IN  IF n < 253 THEN n
        ELSE block[BASIC_HEADER_SIZE + 2] + 256 * block[BASIC_HEADER_SIZE + 3]

FullHeaderLength(block) ==
    BASIC_HEADER_SIZE + VarintSize(block) + DeclaredSigLength(block)

WellFormed(block) == HasVarint(block) /\ Len(block) >= FullHeaderLength(block)

\* C1: on a buffer shorter than 180 + varint_size + declared sig_length the
\* slicer raises TruncatedHeader and returns no header, in particular none
\* shorter than the full length.
C1_TruncatedRaises ==
    (Called("block_header") /\ ~WellFormed(input.block))
        => ~ret["block_header"].ok

\* C2: on a well-formed buffer the slicer returns exactly the first
\* 180 + varint_size + sig_length bytes, whatever the height and the width
\* of the varint, sig_length = 0 included.
C2_ExactHeader ==
    /\ (Called("block_header") /\ WellFormed(input.block))
          => ret["block_header"] =
                Returned(SubSeq(input.block, 1, FullHeaderLength(input.block)))
    /\ (Called("block_header") /\ Called("block_header_at") /\ WellFormed(input.block))
          => ret["block_header_at"] = ret["block_header"]

C2_Witness ==
    /\ Called("block_header") /\ Called("block_header_at")
    /\ WellFormed(input.block)
    /\ VarintSize(input.block) = 9
    /\ DeclaredSigLength(input.block) = MaxSig
    /\ Len(input.block) > FullHeaderLength(input.block)
    /\ ret["block_header"].ok

(***************************************************************************)
(* The profiles.  A profile is the class's resolved attributes: what       *)
(* getattr finds on the class, inherited values included.  declared holds  *)
(* the sync-estimation attributes hasattr finds.  GENESIS_HASH, a hex      *)
(* string in the source, is the hex hash of the chain's genesis header:    *)
(* the 180-byte prefix of the chain and an empty block signature.          *)
(***************************************************************************)
GenesisHeader(chain) == FixedPrefix(chain) \o <<0>>

QtumChain == 1

QtumTestnetChain == 2

NAME_Qtum == <<"Q", "t", "u", "m">>

NET_mainnet == <<"m", "a", "i", "n", "n", "e", "t">>

NET_testnet == <<"t", "e", "s", "t", "n", "e", "t">>

NET_regtest == <<"r", "e", "g", "t", "e", "s", "t">>

req_attrs == <<"TX_COUNT", "TX_COUNT_HEIGHT", "TX_PER_BLOCK">>

\* Coin annotates NAME, NET, RPC_PORT and the TX_ attributes without setting
\* them: the subclasses do.  '????' is four bytes 63.
Coin ==
    [cls |-> "Coin", NAME |-> <<>>, NET |-> <<>>,
     XPUB_VERBYTES |-> <<63, 63, 63, 63>>, XPRV_VERBYTES |-> <<63, 63, 63, 63>>,
     P2PKH_VERBYTE |-> <<0>>, P2SH_VERBYTES |-> {<<5>>},
     GENESIS_HASH |-> hash_to_hex_str(double_sha256(GenesisHeader(0))),
     RPC_PORT |-> 0, declared |-> {}]

Qtum ==
    [cls |-> "Qtum", NAME |-> NAME_Qtum, NET |-> NET_mainnet,
     XPUB_VERBYTES |-> <<4, 136, 178, 30>>, XPRV_VERBYTES |-> <<4, 136, 173, 228>>,
     P2PKH_VERBYTE |-> <<58>>, P2SH_VERBYTES |-> {<<50>>},
     GENESIS_HASH |-> hash_to_hex_str(double_sha256(GenesisHeader(QtumChain))),
     RPC_PORT |-> 3889,
     declared |-> {"TX_COUNT", "TX_COUNT_HEIGHT", "TX_PER_BLOCK"}]

QtumTestnet ==
    [Qtum EXCEPT !.cls = "QtumTestnet", !.NET = NET_testnet,
                 !.XPUB_VERBYTES = <<4, 53, 135, 207>>,
                 !.XPRV_VERBYTES = <<4, 53, 131, 148>>,
                 !.GENESIS_HASH =
                     hash_to_hex_str(double_sha256(GenesisHeader(QtumTestnetChain))),
                 !.RPC_PORT = 13889]

(***************************************************************************)
(* Coin.genesis_block, with the Qtum profiles' own block_header.           *)
(***************************************************************************)
\* Coin.header_hash
header_hash(header) == double_sha256(header)

\* A genesis check that returns the bare header.
genesis_block_BareHeader(coin, block) ==
    LET h == Qtum_block_header(block, 0)
    IN  IF ~h.ok THEN h
        ELSE IF hash_to_hex_str(header_hash(h.val)) # coin.GENESIS_HASH
             THEN Raised("CoinError", "genesis")
             ELSE Returned(h.val)

genesis_block(coin, block) ==
    LET h == Qtum_block_header(block, 0)
    IN  IF ~h.ok THEN h
        ELSE LET header_hex_hash == hash_to_hex_str(header_hash(h.val))
             IN  IF header_hex_hash # coin.GENESIS_HASH
                 THEN Raised("CoinError",
                             [text |-> "genesis block has hash",
                              found |-> header_hex_hash,
                              expected |-> coin.GENESIS_HASH])
                 ELSE Returned(h.val \o <<0>>)

InitGenesis ==
    /\ component = "genesis"
    /\ input \in [coin : {Qtum, QtumTestnet},
                  block : RawBlocks({QtumChain, QtumTestnetChain, 3})]
    /\ ret = NoCalls

\* cls.genesis_block(block)
CallGenesisBlock ==
    /\ component = "genesis"
    /\ ret' = Record("genesis_block", genesis_block(input.coin, input.block))
    /\ UNCHANGED <<component, input>>

\* cls.genesis_block(block), called once more on the same block.
CallGenesisBlockAgain ==
    /\ component = "genesis"
    /\ Called("genesis_block")
    /\ ret' = Record("genesis_block_again", genesis_block(input.coin, input.block))
    /\ UNCHANGED <<component, input>>

NextGenesis == CallGenesisBlock \/ CallGenesisBlockAgain

SpecGenesis == InitGenesis /\ [][NextGenesis]_vars

\* The header the profile's slicer cuts from the block, when it cuts one.
SlicedHeader(block) == Qtum_block_header(block, 0)

IsGenesisMismatch(outcome) ==
    /\ ~outcome.ok
    /\ outcome.exc = "CoinError"
    /\ outcome.msg.text = "genesis block has hash"

\* s with its k-th byte taken out.
Without(s, k) == SubSeq(s, 1, k - 1) \o SubSeq(s, k + 1, Len(s))

\* C8 as stated: the mismatch error exactly when the sliced header's hex hash
\* differs from GENESIS_HASH; on success the result is the header with one
\* byte (the coinbase marker) stripped; a repeated call gives the same outcome.
C8_Original ==
    Called("genesis_block") =>
        LET out == ret["genesis_block"]
            h == SlicedHeader(input.block)
        IN  /\ h.ok =>
                (IsGenesisMismatch(out)
                    <=> hash_to_hex_str(double_sha256(h.val)) # input.coin.GENESIS_HASH)
            /\ out.ok => \E k \in 1..Len(h.val) : out.val = Without(h.val, k)
            /\ Called("genesis_block_again") => ret["genesis_block_again"] = out

\* C8, amended: the mismatch error (with found and expected hash) exactly when
\* the sliced header's hex hash differs from GENESIS_HASH; on success the
\* result is the header followed by one zero byte, the count of an empty
\* transaction list, so that no byte of the block after the header is in it;
\* a repeated call gives the same outcome.
C8_GenesisBlock ==
    Called("genesis_block") =>
        LET out == ret["genesis_block"]
            h == SlicedHeader(input.block)
        IN  /\ ~h.ok => out = h
            /\ h.ok =>
                /\ IsGenesisMismatch(out)
                      <=> hash_to_hex_str(double_sha256(h.val)) # input.coin.GENESIS_HASH
                /\ IsGenesisMismatch(out) =>
                      /\ out.msg.found = hash_to_hex_str(double_sha256(h.val))
                      /\ out.msg.expected = input.coin.GENESIS_HASH
                /\ ~IsGenesisMismatch(out) =>
                      /\ out.ok
                      /\ h.val = GenesisHeader(IF input.coin = Qtum THEN QtumChain
                                               ELSE QtumTestnetChain)
                      /\ out.val = h.val \o <<0>>
                      /\ Len(out.val) = Len(h.val) + 1
            /\ Called("genesis_block_again") => ret["genesis_block_again"] = out

C8_Witness ==
    /\ Called("genesis_block") /\ Called("genesis_block_again")
    /\ ret["genesis_block"].ok
    /\ Len(input.block) > Len(ret["genesis_block"].val)
    /\ input.coin = QtumTestnet

(***************************************************************************)
(* Scripts and the hashX derivation.                                       *)
(***************************************************************************)
OP_RETURN == 106

OP_CHECKSIG == 172

OP_DUP == 118

OP_HASH160 == 169

OP_EQUALVERIFY == 136

OP_EQUAL == 135

\* Script.push_data of at most 75 bytes: the length, then the data.
push_data(data) == <<Len(data)>> \o data

\* ScriptPubKey.P2PKH_script
P2PKH_script(h160) ==
    <<OP_DUP, OP_HASH160>> \o push_data(h160) \o <<OP_EQUALVERIFY, OP_CHECKSIG>>

\* ScriptPubKey.P2SH_script
P2SH_script(h160) == <<OP_HASH160>> \o push_data(h160) \o <<OP_EQUAL>>

\* ScriptPubKey.P2PK_script
P2PK_script(pubkey) == push_data(pubkey) \o <<OP_CHECKSIG>>

None == [none |-> TRUE]

\* Coin.hashX_from_script
Coin_hashX_from_script(script) == Truncate(sha256(script), HASHX_LEN)

\* A derivation without the pay-to-pubkey rewrite.
Qtum_hashX_from_script_NoRewrite(script) ==
    IF Len(script) > 0 /\ script[1] = OP_RETURN
    THEN None
    ELSE Truncate(sha256(script), HASHX_LEN)

\* A derivation that keeps null-data scripts.
Qtum_hashX_from_script_NoNullData(script) ==
    IF \/ (Len(script) = 35 /\ script[1] = 33 /\ script[2] \in {2, 3})
       \/ ((Len(script) = 67 /\ script[1] = 65 /\ script[2] \in {4, 6, 7})
             /\ script[Len(script)] = OP_CHECKSIG)
    THEN Truncate(sha256(P2PKH_script(hash160(SubSeq(script, 2, Len(script) - 1)))),
                  HASHX_LEN)
    ELSE Truncate(sha256(script), HASHX_LEN)

(***************************************************************************)
(* Qtum.hashX_from_script.  Python's `and` binds tighter than `or`: the    *)
(* condition is A or (B and C), the OP_CHECKSIG test belongs to the        *)
(* 67-byte alternative alone.                                              *)
(***************************************************************************)
Qtum_hashX_from_script(script) ==
    IF Len(script) > 0 /\ script[1] = OP_RETURN
    THEN None
    ELSE IF \/ (Len(script) = 35 /\ script[1] = 33 /\ script[2] \in {2, 3})
            \/ ((Len(script) = 67 /\ script[1] = 65 /\ script[2] \in {4, 6, 7})
                  /\ script[Len(script)] = OP_CHECKSIG)
         THEN Truncate(sha256(P2PKH_script(hash160(SubSeq(script, 2, Len(script) - 1)))),
                       HASHX_LEN)
         ELSE Truncate(sha256(script), HASHX_LEN)

\* Coin.hash160_to_P2PKH_script
hash160_to_P2PKH_script(h160) == P2PKH_script(h160)

\* cls.hash160_to_P2PKH_hashX for cls = Qtum and for cls = Coin
Qtum_hash160_to_P2PKH_hashX(h160) ==
    Qtum_hashX_from_script(hash160_to_P2PKH_script(h160))

Coin_hash160_to_P2PKH_hashX(h160) ==
    Coin_hashX_from_script(hash160_to_P2PKH_script(h160))

(***************************************************************************)
(* Input scripts: a length, the first two bytes, the last byte; the bytes  *)
(* between are a filler.  The lengths are the empty and the short ones,    *)
(* that of a P2PKH script, and those around the two pay-to-pubkey lengths. *)
(***************************************************************************)
\* Lengths 35 - MaxPad .. 35 + MaxPad and 67 - MaxPad .. 67 + MaxPad.
MaxPad == 1

Filler == 17

ScriptLens ==
    {0, 1, 2, 25} \cup {35 + d : d \in (0 - MaxPad)..MaxPad}
                  \cup {67 + d : d \in (0 - MaxPad)..MaxPad}

ScriptOf(n, first, second, last) ==
    [i \in 1..n |-> IF i = 1 THEN first
                    ELSE IF i = n THEN last
                    ELSE IF i = 2 THEN second ELSE Filler]

Scripts ==
    {ScriptOf(n, first, second, last) :
        n \in ScriptLens, first \in {33, 65, OP_RETURN, OP_DUP},
        second \in {2, 3, 4, 5, 6, 7}, last \in {OP_CHECKSIG, OP_RETURN, 0}}

InitHashX ==
    /\ component = "hashX"
    /\ input \in [script : Scripts]
    /\ ret = NoCalls

\* Qtum.hashX_from_script(script)
CallQtumHashX ==
    /\ component = "hashX"
    /\ ret' = Record("qtum", Returned(Qtum_hashX_from_script(input.script)))
    /\ UNCHANGED <<component, input>>

\* Coin.hashX_from_script(script)
CallCoinHashX ==
    /\ component = "hashX"
    /\ ret' = Record("coin", Returned(Coin_hashX_from_script(input.script)))
    /\ UNCHANGED <<component, input>>

\* Qtum.hash160_to_P2PKH_hashX(hash160(script[1:-1]))
CallQtumKeyHashX ==
    /\ component = "hashX"
    /\ Len(input.script) >= 2
    /\ ret' = Record("qtum_p2pkh",
                     Returned(Qtum_hash160_to_P2PKH_hashX(
                         hash160(SubSeq(input.script, 2, Len(input.script) - 1)))))
    /\ UNCHANGED <<component, input>>

\* Coin.hash160_to_P2PKH_hashX(hash160(script[1:-1]))
CallCoinKeyHashX ==
    /\ component = "hashX"
    /\ Len(input.script) >= 2
    /\ ret' = Record("coin_p2pkh",
                     Returned(Coin_hash160_to_P2PKH_hashX(
                         hash160(SubSeq(input.script, 2, Len(input.script) - 1)))))
    /\ UNCHANGED <<component, input>>

NextHashX == CallQtumHashX \/ CallCoinHashX \/ CallQtumKeyHashX \/ CallCoinKeyHashX

SpecHashX == InitHashX /\ [][NextHashX]_vars

\* An encoded public key: 33 bytes led by 2 or 3, or 65 bytes led by 4
\* (6 or 7 for the hybrid form).
IsPublicKey(key) ==
    \/ Len(key) = 33 /\ key[1] \in {2, 3}
    \/ Len(key) = 65 /\ key[1] \in {4, 6, 7}

\* The standard pay-to-pubkey scripts: <push pubkey> OP_CHECKSIG.
IsP2PK(script) ==
    /\ Len(script) \in {35, 67}
    /\ LET key == SubSeq(script, 2, Len(script) - 1)
       IN  IsPublicKey(key) /\ script = P2PK_script(key)

IsDigestOf(value, data, n) ==
    value = [alg |-> "sha256", data |-> data, len |-> n]

\* C3: the pay-to-pubkey script of a public key and the pay-to-pubkey-hash
\* script of its hash160 have the same hashX under Qtum.hashX_from_script and
\* different ones under Coin.hashX_from_script.
C3_P2PKEquivalence ==
    IsP2PK(input.script) =>
        /\ (Called("qtum") /\ Called("qtum_p2pkh"))
              => ret["qtum"] = ret["qtum_p2pkh"]
        /\ (Called("coin") /\ Called("coin_p2pkh"))
              => ret["coin"] # ret["coin_p2pkh"]

C3_Witness ==
    /\ IsP2PK(input.script)
    /\ Len(input.script) = 67
    /\ Called("qtum") /\ Called("qtum_p2pkh") /\ Called("coin") /\ Called("coin_p2pkh")
    /\ ret["qtum"].val # None

\* C4 as stated: None for every script whose first byte is OP_RETURN and for
\* the empty script; for every other script a key of exactly HASHX_LEN bytes.
C4_Original ==
    Called("qtum") =>
        LET s == input.script
            v == ret["qtum"].val
        IN  IF s = <<>> \/ s[1] = OP_RETURN
            THEN v = None
            ELSE v # None /\ v.len = HASHX_LEN

\* C4, amended: None exactly for the scripts whose first byte is OP_RETURN,
\* with or without a payload; for every other script, the empty script
\* included, a key of exactly HASHX_LEN bytes, which is never None.
C4_NullData ==
    Called("qtum") =>
        LET s == input.script
            v == ret["qtum"].val
        IN  IF Len(s) > 0 /\ s[1] = OP_RETURN
            THEN v = None
            ELSE v # None /\ v.alg = "sha256" /\ v.len = HASHX_LEN

C4_Witness ==
    /\ Called("qtum")
    /\ Len(input.script) > 1
    /\ input.script[1] = OP_RETURN
    /\ ret["qtum"].val = None

\* C10: the script is rewritten to the P2PKH script of hash160(script[1:-1])
\* only if it is a standard pay-to-pubkey script ending in OP_CHECKSIG; every
\* other script (that is not null data) is hashed unchanged.
C10_RewriteOnlyP2PK ==
    (Called("qtum") /\ ~(Len(input.script) > 0 /\ input.script[1] = OP_RETURN)) =>
        LET s == input.script
            v == ret["qtum"].val
        IN  IF IsP2PK(s)
            THEN IsDigestOf(v, P2PKH_script(hash160(SubSeq(s, 2, Len(s) - 1))), HASHX_LEN)
            ELSE IsDigestOf(v, s, HASHX_LEN)

(***************************************************************************)
(* The registry: util.subclasses(Coin), the list of the module's Coin      *)
(* subclasses (Coin itself is not in it).  The file defines Qtum and       *)
(* QtumTestnet; a deployment adds further subclasses, and the list then    *)
(* holds them too, in the order util.subclasses gives.  The model takes    *)
(* every order of the two profiles and up to MaxExtra of these further     *)
(* subclasses:                                                             *)
(*   QtumRegtest(Qtum)  overrides NET alone: it shares Qtum's xpub/xprv    *)
(*                      version bytes;                                     *)
(*   QtumLegacy(Coin)   names itself "QTUM" on "testnet", swaps Qtum's     *)
(*                      xpub and xprv bytes, and declares TX_COUNT alone;  *)
(*   QtumBare(Coin)     names itself "qtum" on "mainnet", keeps Coin's     *)
(*                      '????' version bytes, and declares nothing.        *)
(***************************************************************************)
MaxExtra == 1

QtumRegtest == [Qtum EXCEPT !.cls = "QtumRegtest", !.NET = NET_regtest]

QtumLegacy ==
    [Coin EXCEPT !.cls = "QtumLegacy",
                 !.NAME = <<"Q", "T", "U", "M">>, !.NET = NET_testnet,
                 !.XPUB_VERBYTES = Qtum.XPRV_VERBYTES,
                 !.XPRV_VERBYTES = Qtum.XPUB_VERBYTES,
                 !.declared = {"TX_COUNT"}]

QtumBare ==
    [Coin EXCEPT !.cls = "QtumBare",
                 !.NAME = <<"q", "t", "u", "m">>, !.NET = NET_mainnet]

ExtraProfiles == {QtumRegtest, QtumLegacy, QtumBare}

\* The orders of a set of profiles.
Orders(profiles) ==
    {order \in [1..Cardinality(profiles) -> profiles] :
        \A i, j \in 1..Cardinality(profiles) : order[i] = order[j] => i = j}

Registries ==
    UNION {Orders({Qtum, QtumTestnet} \cup extra) :
              extra \in {e \in SUBSET ExtraProfiles : Cardinality(e) <= MaxExtra}}

\* str.lower() on the letters of the alphabet; other characters stay.
UpperCase == <<"A", "B", "C", "D", "E", "F", "G", "H", "I", "J", "K", "L", "M",
               "N", "O", "P", "Q", "R", "S", "T", "U", "V", "W", "X", "Y", "Z">>

LowerCase == <<"a", "b", "c", "d", "e", "f", "g", "h", "i", "j", "k", "l", "m",
               "n", "o", "p", "q", "r", "s", "t", "u", "v", "w", "x", "y", "z">>

lower_char(c) ==
    IF \E k \in 1..26 : UpperCase[k] = c
    THEN LowerCase[CHOOSE k \in 1..26 : UpperCase[k] = c]
    ELSE c

lower(word) == [i \in 1..Len(word) |-> lower_char(word[i])]

\* [attr for attr in req_attrs if not hasattr(coin, attr)]
RECURSIVE missing_attrs(_, _)
missing_attrs(coin, k) ==
    IF k > Len(req_attrs) THEN <<>>
    ELSE (IF req_attrs[k] \in coin.declared THEN <<>> ELSE <<req_attrs[k]>>)
         \o missing_attrs(coin, k + 1)

\* A lookup that compares NAME and NET as written.
RECURSIVE lookup_coin_class_CaseSensitive(_, _, _, _)
lookup_coin_class_CaseSensitive(registry, k, name, net) ==
    IF k > Len(registry)
    THEN Raised("CoinError", [text |-> "unknown coin", name |-> name, net |-> net])
    ELSE LET coin == registry[k]
         IN  IF coin.NAME = name /\ coin.NET = net
             THEN IF missing_attrs(coin, 1) # <<>>
                  THEN Raised("CoinError", [text |-> "missing attributes", name |-> name,
                                            missing |-> missing_attrs(coin, 1)])
                  ELSE Returned(coin)
             ELSE lookup_coin_class_CaseSensitive(registry, k + 1, name, net)

\* Coin.lookup_coin_class: the loop from its k-th profile on.
RECURSIVE lookup_coin_class(_, _, _, _)
lookup_coin_class(registry, k, name, net) ==
    IF k > Len(registry)
    THEN Raised("CoinError", [text |-> "unknown coin", name |-> name, net |-> net])
    ELSE LET coin == registry[k]
         IN  IF lower(coin.NAME) = lower(name) /\ lower(coin.NET) = lower(net)
             THEN IF missing_attrs(coin, 1) # <<>>
                  THEN Raised("CoinError", [text |-> "missing attributes", name |-> name,
                                            missing |-> missing_attrs(coin, 1)])
                  ELSE Returned(coin)
             ELSE lookup_coin_class(registry, k + 1, name, net)

\* A lookup in which a later profile's match replaces an earlier one's.
RECURSIVE lookup_xverbytes_LastWins(_, _, _)
lookup_xverbytes_LastWins(registry, k, verbytes) ==
    IF k > Len(registry) THEN Raised("CoinError", "version bytes unrecognised")
    ELSE LET later == lookup_xverbytes_LastWins(registry, k + 1, verbytes)
         IN  IF later.ok THEN later
             ELSE IF verbytes = registry[k].XPUB_VERBYTES
                  THEN Returned(<<TRUE, registry[k]>>)
                  ELSE IF verbytes = registry[k].XPRV_VERBYTES
                       THEN Returned(<<FALSE, registry[k]>>)
                       ELSE later

\* Coin.lookup_xverbytes: the loop from its k-th profile on.
RECURSIVE lookup_xverbytes(_, _, _)
lookup_xverbytes(registry, k, verbytes) ==
    IF k > Len(registry) THEN Raised("CoinError", "version bytes unrecognised")
    ELSE IF verbytes = registry[k].XPUB_VERBYTES
         THEN Returned(<<TRUE, registry[k]>>)
         ELSE IF verbytes = registry[k].XPRV_VERBYTES
              THEN Returned(<<FALSE, registry[k]>>)
              ELSE lookup_xverbytes(registry, k + 1, verbytes)

VerbytesInputs ==
    {Qtum.XPUB_VERBYTES, Qtum.XPRV_VERBYTES, QtumTestnet.XPUB_VERBYTES,
     QtumTestnet.XPRV_VERBYTES, Coin.XPUB_VERBYTES, <<4, 136, 178>>, <<1, 2, 3, 4>>}

NameInputs ==
    {NAME_Qtum, <<"q", "t", "u", "m">>, <<"Q", "T", "U", "M">>,
     <<"Q", "t", "u", "n">>, <<"Q", "t", "u">>}

NetInputs ==
    {NET_mainnet, NET_testnet, NET_regtest,
     <<"M", "a", "i", "n", "N", "e", "t">>, <<"T", "E", "S", "T", "N", "E", "T">>,
     <<"m", "a", "i", "n">>}

InitRegistry ==
    /\ component = "registry"
    /\ input \in [registry : Registries, verbytes : VerbytesInputs,
                  name : NameInputs, net : NetInputs]
    /\ ret = NoCalls

\* Coin.lookup_xverbytes(verbytes)
CallLookupXverbytes ==
    /\ component = "registry"
    /\ ret' = Record("lookup_xverbytes",
                     lookup_xverbytes(input.registry, 1, input.verbytes))
    /\ UNCHANGED <<component, input>>

\* Coin.lookup_xverbytes(verbytes), called once more.
CallLookupXverbytesAgain ==
    /\ component = "registry"
    /\ Called("lookup_xverbytes")
    /\ ret' = Record("lookup_xverbytes_again",
                     lookup_xverbytes(input.registry, 1, input.verbytes))
    /\ UNCHANGED <<component, input>>

\* Coin.lookup_coin_class(name, net)
CallLookupCoinClass ==
    /\ component = "registry"
    /\ ret' = Record("lookup_coin_class",
                     lookup_coin_class(input.registry, 1, input.name, input.net))
    /\ UNCHANGED <<component, input>>

NextRegistry == CallLookupXverbytes \/ CallLookupXverbytesAgain \/ CallLookupCoinClass

SpecRegistry == InitRegistry /\ [][NextRegistry]_vars

\* The places of the profiles that carry the version bytes.
XverMatches(registry, verbytes) ==
    {k \in 1..Len(registry) :
        verbytes \in {registry[k].XPUB_VERBYTES, registry[k].XPRV_VERBYTES}}

First(places) == CHOOSE k \in places : \A j \in places : k <= j

Position(registry, profile) == CHOOSE k \in 1..Len(registry) : registry[k] = profile

\* C5: lookup_xverbytes returns (True, profile) or (False, profile) for the
\* first profile in registry order whose XPUB_VERBYTES or XPRV_VERBYTES equals
\* verbytes, the earlier one when several share them, the same on every call;
\* Qtum and QtumTestnet never shadow each other; it raises the unrecognised
\* version bytes error exactly when no profile matches.
C5_LookupXverbytes ==
    Called("lookup_xverbytes") =>
        LET out == ret["lookup_xverbytes"]
            places == XverMatches(input.registry, input.verbytes)
        IN  /\ places = {} <=> ~out.ok
            /\ ~out.ok => out = Raised("CoinError", "version bytes unrecognised")
            /\ out.ok =>
                  /\ out.val[2] = input.registry[First(places)]
                  /\ out.val[1] \in BOOLEAN
                  /\ out.val[1] => input.verbytes = out.val[2].XPUB_VERBYTES
                  /\ ~out.val[1] => input.verbytes = out.val[2].XPRV_VERBYTES
                  /\ input.verbytes \in {QtumTestnet.XPUB_VERBYTES,
                                         QtumTestnet.XPRV_VERBYTES}
                        => out.val[2] = QtumTestnet
                  /\ input.verbytes \in {Qtum.XPUB_VERBYTES, Qtum.XPRV_VERBYTES}
                        => out.val[2] # QtumTestnet
            /\ Called("lookup_xverbytes_again") => ret["lookup_xverbytes_again"] = out

\* Two profiles share the version bytes and the earlier one is returned.
C5_Witness ==
    /\ Called("lookup_xverbytes") /\ Called("lookup_xverbytes_again")
    /\ Cardinality(XverMatches(input.registry, input.verbytes)) = 2
    /\ ret["lookup_xverbytes"].ok
    /\ ret["lookup_xverbytes"].val[2] = QtumRegtest
    /\ Position(input.registry, QtumRegtest) < Position(input.registry, Qtum)

\* The places of the profiles whose NAME and NET match without regard to case.
NameNetMatches(registry, name, net) ==
    {k \in 1..Len(registry) :
        /\ lower(registry[k].NAME) = lower(name)
        /\ lower(registry[k].NET) = lower(net)}

MissingSet(coin) == {req_attrs[k] : k \in 1..Len(req_attrs)} \ coin.declared

SeqRange(q) == {q[k] : k \in 1..Len(q)}

\* C6: lookup_coin_class matches NAME and NET without regard to case; a
\* profile it returns declares TX_COUNT, TX_COUNT_HEIGHT and TX_PER_BLOCK; if
\* the first match lacks any of them it raises the incomplete-profile error
\* that lists exactly the missing attributes; it raises the unknown-coin error
\* exactly when no profile matches name and network.
C6_LookupCoinClass ==
    Called("lookup_coin_class") =>
        LET out == ret["lookup_coin_class"]
            places == NameNetMatches(input.registry, input.name, input.net)
        IN  /\ (~out.ok /\ out.msg.text = "unknown coin") <=> places = {}
            /\ out.ok =>
                  /\ out.val = input.registry[First(places)]
                  /\ SeqRange(req_attrs) \subseteq out.val.declared
            /\ places # {} =>
                  LET coin == input.registry[First(places)]
                  IN  IF MissingSet(coin) = {}
                      THEN out = Returned(coin)
                      ELSE /\ ~out.ok
                           /\ out.exc = "CoinError"
                           /\ out.msg.text = "missing attributes"
                           /\ SeqRange(out.msg.missing) = MissingSet(coin)
                           /\ Len(out.msg.missing) = Cardinality(MissingSet(coin))

\* The first match, found under another case, lacks two attributes, and a
\* later complete profile matches too.
C6_Witness ==
    /\ Called("lookup_coin_class")
    /\ input.name = NAME_Qtum
    /\ input.net = <<"T", "E", "S", "T", "N", "E", "T">>
    /\ Cardinality(NameNetMatches(input.registry, input.name, input.net)) = 2
    /\ ~ret["lookup_coin_class"].ok
    /\ ret["lookup_coin_class"].msg.text = "missing attributes"
    /\ ret["lookup_coin_class"].msg.missing = <<"TX_COUNT_HEIGHT", "TX_PER_BLOCK">>

(***************************************************************************)
(* Addresses.  An address is a base58 text; the model keeps what the       *)
(* decoder makes of it: whether its characters are of the base58 alphabet, *)
(* whether its four checksum bytes are those of the payload, and the       *)
(* payload.  Base58.decode_check returns the payload of a well-formed text *)
(* and raises Base58Error on any other; Base58Error is the codec's own     *)
(* exception (electrumx.lib.hash cannot raise CoinError, which is defined  *)
(* in coins.py, the module that imports it).                               *)
(***************************************************************************)
\* Hash bodies whose bytes are 0..MaxFill.
MaxFill == 1
\* Version prefixes of up to MaxVerLen bytes.
MaxVerLen == 2

DECODE_CHECK(address) ==
    IF address.alphabet_ok /\ address.checksum_ok
    THEN Returned(address.payload)
    ELSE Raised("Base58Error", "invalid base 58")

\* Coin.pay_to_address_script
pay_to_address_script(coin, address) ==
    LET decoded == DECODE_CHECK(address)
    IN  IF ~decoded.ok THEN decoded
        ELSE LET raw == decoded.val
                 verlen == Len(raw) - 20
             IN  IF verlen > 0 /\ SubSeq(raw, 1, verlen) = coin.P2PKH_VERBYTE
                 THEN Returned(hash160_to_P2PKH_script(SubSeq(raw, verlen + 1, Len(raw))))
                 ELSE IF verlen > 0 /\ SubSeq(raw, 1, verlen) \in coin.P2SH_VERBYTES
                      THEN Returned(P2SH_script(SubSeq(raw, verlen + 1, Len(raw))))
                      ELSE Raised("CoinError", "invalid address")

VersionBytes == {0, 5, 50, 58}

RECURSIVE SeqsUpTo(_, _)
SeqsUpTo(S, n) ==
    IF n = 0 THEN {<<>>}
    ELSE LET shorter == SeqsUpTo(S, n - 1)
         IN  shorter \cup {<<x>> \o q : x \in S, q \in {r \in shorter : Len(r) = n - 1}}

Hash20(fill) == [i \in 1..20 |-> fill]

Payloads ==
    {prefix \o SubSeq(Hash20(fill), 1, n) :
        prefix \in SeqsUpTo(VersionBytes, MaxVerLen), fill \in 0..MaxFill,
        n \in {0, 19, 20}}

Addresses == [alphabet_ok : BOOLEAN, checksum_ok : BOOLEAN, payload : Payloads]

InitAddress ==
    /\ component = "address"
    /\ input \in [coin : {Coin, Qtum, QtumTestnet}, address : Addresses]
    /\ ret = NoCalls

\* cls.pay_to_address_script(address)
CallPayToAddressScript ==
    /\ component = "address"
    /\ ret' = Record("pay_to_address_script",
                     pay_to_address_script(input.coin, input.address))
    /\ UNCHANGED <<component, input>>

\* cls.address_to_hashX(address), for the Qtum profiles and for Coin
CallAddressToHashX ==
    /\ component = "address"
    /\ LET script == pay_to_address_script(input.coin, input.address)
       IN  ret' = Record("address_to_hashX",
                         IF ~script.ok THEN script
                         ELSE IF input.coin = Coin
                              THEN Returned(Coin_hashX_from_script(script.val))
                              ELSE Returned(Qtum_hashX_from_script(script.val)))
    /\ UNCHANGED <<component, input>>

NextAddress == CallPayToAddressScript \/ CallAddressToHashX

SpecAddress == InitAddress /\ [][NextAddress]_vars

Decodes(address) == address.alphabet_ok /\ address.checksum_ok

\* The payload is the version bytes followed by exactly 20 bytes.
IsVersioned(payload, version) ==
    /\ Len(payload) = Len(version) + 20
    /\ SubSeq(payload, 1, Len(version)) = version

Last20(payload) == SubSeq(payload, Len(payload) - 19, Len(payload))

\* C7: pay_to_address_script returns the P2PKH script of the trailing 20
\* bytes exactly when the decoded payload is P2PKH_VERBYTE and 20 bytes, a
\* P2SH script exactly when it is one of P2SH_VERBYTES and 20 bytes, and in
\* every other case, a decode failure included, raises the invalid address
\* error, a CoinError, and returns no script.
C7_PayToAddressScript ==
    Called("pay_to_address_script") =>
        LET out == ret["pay_to_address_script"]
            a == input.address
            coin == input.coin
        IN  IF Decodes(a) /\ IsVersioned(a.payload, coin.P2PKH_VERBYTE)
            THEN out = Returned(P2PKH_script(Last20(a.payload)))
            ELSE IF Decodes(a) /\ \E v \in coin.P2SH_VERBYTES : IsVersioned(a.payload, v)
                 THEN out = Returned(P2SH_script(Last20(a.payload)))
                 ELSE ~out.ok /\ out.exc = "CoinError"

(***************************************************************************)
(* Daemon URLs.  A URL is its sequence of characters.                      *)
(***************************************************************************)
\* Up to MaxSlashes slashes at the end of an input.
MaxSlashes == 2

Whitespace == {" "}

DigitChars == <<"0", "1", "2", "3", "4", "5", "6", "7", "8", "9">>

Digits == {DigitChars[k] : k \in 1..10}

\* The class [0-9a-fA-F:]
HexColon == Digits \cup {"a", "b", "c", "d", "e", "f", "A", "B", "C", "D", "E", "F", ":"}

Str_http == <<"h", "t", "t", "p", ":", "/", "/">>

Str_https == <<"h", "t", "t", "p", "s", ":", "/", "/">>

startswith(s, prefix) ==
    Len(s) >= Len(prefix) /\ SubSeq(s, 1, Len(prefix)) = prefix

\* str.strip(): without the whitespace at both ends.
strip(s) ==
    LET inside == {k \in 1..Len(s) : s[k] \notin Whitespace}
    IN  IF inside = {} THEN <<>>
        ELSE SubSeq(s, CHOOSE k \in inside : \A j \in inside : k <= j,
                       CHOOSE k \in inside : \A j \in inside : j <= k)

\* str.rstrip('/'): without the slashes at the end.
rstrip_slash(s) ==
    LET inside == {k \in 1..Len(s) : s[k] # "/"}
    IN  IF inside = {} THEN <<>>
        ELSE SubSeq(s, 1, CHOOSE k \in inside : \A j \in inside : j <= k)

\* f'{n:d}'
RECURSIVE format_d(_)
format_d(n) ==
    IF n < 10 THEN <<DigitChars[n + 1]>>
    ELSE format_d(n \div 10) \o <<DigitChars[(n % 10) + 1]>>

\* The last place j >= from - 1 with s[from..j] all of the class: the end of
\* a greedy run that starts at from (from - 1 when the run is empty).  The
\* class is the characters of chars, or with negated the others ([^...]).
RunEnd(s, from, chars, negated) ==
    LET ends == {j \in (from - 1)..Len(s) :
                    \A k \in from..j : (s[k] \in chars) # negated}
    IN  CHOOSE j \in ends : \A k \in ends : k <= j

(***************************************************************************)
(* RPC_URL_REGEX.match(url) for '.+@(\[[0-9a-fA-F:]+\]|[^:]+)(:[0-9]+)?'.  *)
(* match anchors the pattern at the start of the text and not at its end.  *)
(* The greedy .+ gives the text back from the right, so the '@' is the     *)
(* last one that a host can follow; the bracketed alternative is tried     *)
(* first; the port group takes part when ':' and a digit follow the host.  *)
(* HostEnd is the place of the host's last character, 0 when no host       *)
(* follows the '@' at place at.                                            *)
(***************************************************************************)
HostEnd(s, at) ==
    LET run == RunEnd(s, at + 2, HexColon, FALSE)
        plain == RunEnd(s, at + 1, {":"}, TRUE)
    IN  IF /\ at + 1 <= Len(s) /\ s[at + 1] = "["
           /\ run >= at + 2
           /\ run + 1 <= Len(s) /\ s[run + 1] = "]"
        THEN run + 1
        ELSE IF plain >= at + 1 THEN plain ELSE 0

RPC_URL_REGEX_match(s) ==
    LET ats == {k \in 2..Len(s) : s[k] = "@" /\ HostEnd(s, k) # 0}
    IN  IF ats = {} THEN [matched |-> FALSE, port |-> FALSE, end |-> 0]
        ELSE LET at == CHOOSE k \in ats : \A j \in ats : j <= k
                 host == HostEnd(s, at)
                 digits == RunEnd(s, host + 2, Digits, FALSE)
                 port == /\ host + 2 <= Len(s)
                         /\ s[host + 1] = ":"
                         /\ s[host + 2] \in Digits
             IN  [matched |-> TRUE, port |-> port,
                  end |-> IF port THEN digits ELSE host]

\* Coin.sanitize_url
sanitize_url(coin, url) ==
    LET stripped == rstrip_slash(strip(url))
        match == RPC_URL_REGEX_match(stripped)
    IN  IF ~match.matched
        THEN Raised("CoinError", [text |-> "invalid daemon URL", url |-> stripped])
        ELSE LET with_port == IF ~match.port
                              THEN stripped \o <<":">> \o format_d(coin.RPC_PORT)
                              ELSE stripped
                 with_scheme == IF startswith(with_port, Str_http)
                                   \/ startswith(with_port, Str_https)
                                THEN with_port
                                ELSE Str_http \o with_port
             IN  Returned(with_scheme \o <<"/">>)

Slashes(n) == [i \in 1..n |-> "/"]

UrlInputs ==
    {lead \o scheme \o user \o at \o host \o after \o Slashes(n) \o trail :
        lead \in {<<>>, <<" ">>},
        scheme \in {<<>>, Str_http, Str_https},
        user \in {<<>>, <<"u">>, <<"u", ":", "p">>},
        at \in {<<>>, <<"@">>},
        host \in {<<>>, <<"h">>, <<"[", "a", ":", "1", "]">>, <<"[", "a", ":", "1">>,
                  <<"h", "/", "p">>},
        after \in {<<>>, <<":", "7">>, <<":">>, <<":", "x">>, <<":", "7", "/", "x">>},
        n \in 0..MaxSlashes,
        trail \in {<<>>, <<" ">>}}

InitUrl ==
    /\ component = "url"
    /\ input \in [coin : {Qtum, QtumTestnet}, url : UrlInputs]
    /\ ret = NoCalls

\* cls.sanitize_url(url)
CallSanitizeUrl ==
    /\ component = "url"
    /\ ret' = Record("sanitize_url", sanitize_url(input.coin, input.url))
    /\ UNCHANGED <<component, input>>

\* cls.sanitize_url applied to the URL the first call returned.
CallSanitizeUrlOfOutput ==
    /\ component = "url"
    /\ Called("sanitize_url")
    /\ ret["sanitize_url"].ok
    /\ ret' = Record("sanitize_url_of_output",
                     sanitize_url(input.coin, ret["sanitize_url"].val))
    /\ UNCHANGED <<component, input>>

NextUrl == CallSanitizeUrl \/ CallSanitizeUrlOfOutput

SpecUrl == InitUrl /\ [][NextUrl]_vars

\* The port a URL carries: the pattern's port group, ':' and digits right
\* after the host.
CarriesPort(url) == RPC_URL_REGEX_match(rstrip_slash(url)).port

HasScheme(url) == startswith(url, Str_http) \/ startswith(url, Str_https)

\* What C9 states of the call, given whether the input counts as matching
\* the pattern.
C9_Statement(matches) ==
    LET out == ret["sanitize_url"]
        url == rstrip_slash(strip(input.url))
        match == RPC_URL_REGEX_match(url)
        port == <<":">> \o format_d(input.coin.RPC_PORT)
    IN  IF matches
        THEN /\ out.ok
             /\ HasScheme(out.val)
             /\ out.val[Len(out.val)] = "/"
             /\ out.val = (IF HasScheme(url) THEN <<>> ELSE Str_http) \o url
                            \o (IF match.port THEN <<>> ELSE port) \o <<"/">>
             /\ CarriesPort(out.val)
             /\ (HasScheme(url) /\ match.port) =>
                   /\ out.val = url \o <<"/">>
                   /\ Called("sanitize_url_of_output")
                         => ret["sanitize_url_of_output"] = out
        ELSE /\ ~out.ok
             /\ out.exc = "CoinError"
             /\ out.msg.text = "invalid daemon URL"

\* C9: on an input that matches the pattern sanitize_url returns a URL that
\* starts with http:// or https://, carries exactly one port (RPC_PORT is
\* appended only when the input had none) and ends with '/'; an input with a
\* scheme and a port keeps both and is only trailing-slash-normalised, and
\* sanitize_url maps its output to itself; an input that does not match the
\* pattern raises the invalid daemon URL error.  An input matches when the
\* pattern matches it from its start (as RPC_URL_REGEX.match does), or else
\* when the match takes the whole of it: the statement is taken to hold when
\* it does under either reading.
C9_SanitizeUrl ==
    Called("sanitize_url") =>
        LET url == rstrip_slash(strip(input.url))
            match == RPC_URL_REGEX_match(url)
        IN  \/ C9_Statement(match.matched)
            \/ C9_Statement(match.matched /\ match.end = Len(url))

(***************************************************************************)
(* The whole file: a call of any component.                                *)
(***************************************************************************)
Init ==
    \/ InitHeader
    \/ InitGenesis
    \/ InitHashX
    \/ InitRegistry
    \/ InitAddress
    \/ InitUrl

Next ==
    \/ NextHeader
    \/ NextGenesis
    \/ NextHashX
    \/ NextRegistry
    \/ NextAddress
    \/ NextUrl

Spec == Init /\ [][Next]_vars

====
